---- MODULE Spec2Model ----
(***************************************************************************)
(* Model of the Streamlit session of src/app.py (the "15 Year Net Worth    *)
(* Projection" page).  One script run is triggered per button press; the   *)
(* model has one action per button, which carries out the whole handler    *)
(* of that button and records in `last` what the run showed to the user.   *)
(*                                                                         *)
(* Python values are encoded as follows.  A str is a TLA+ string; the      *)
(* value None is the token `None`, which is not one of the texts the       *)
(* completion service returns.  A parsed JSON value is a record of one     *)
(* fixed shape (BaseDoc): `type` is the Python type of the value, `keys`   *)
(* the keys a dict holds, and a field whose key is not in `keys` is        *)
(* absent whatever the record stores there.  An exception is the name of   *)
(* its class, "" meaning that none was raised.                             *)
(***************************************************************************)
EXTENDS Integers, Sequences, FiniteSets, TLC

VARIABLES
    explanation_response,   \* st.session_state["explanation_response"]
    chart_response,         \* st.session_state["chart_response"]
    responses_history,      \* st.session_state["responses_history"]
    current_projection,     \* st.session_state["current_projection"]
    additional_step,        \* st.session_state["additional_step"]
    show_transition,        \* st.session_state.show_transition (FALSE: not set)
    last,                   \* what the last script run did and rendered
    call                    \* the last direct call of a helper function

vars == <<explanation_response, chart_response, responses_history,
          current_projection, additional_step, show_transition, last, call>>

-----------------------------------------------------------------------------
(* Bounds of the model *)

\* Next Step is not offered by the model once the counter is MaxStep.
MaxStep == 8
\* Revise Projection is not offered by the model once the history holds
\* MaxHistory entries.
MaxHistory == 1
\* The same, in the sessions that start late in the questions (HistorySpec).
MaxEntries == 2

-----------------------------------------------------------------------------
(* Program constants *)

\* The projections cover years 1..15.
NumYears == 15
\* Default position of the transition-year slider.
DefaultYear == 5

\* additional_variables: (question, var_name) pairs.
additional_variables ==
    << <<"Do you have a pet? If yes, what kind?", "pet">>,
       <<"What is your favorite subject?", "subject">>,
       <<"What is your main goal in life?", "goal">>,
       <<"Do you like money?", "like_money">>,
       <<"Do you have any hobbies? If so, what kind?", "hobbies">>,
       <<"Do you like cars?", "like_cars">>,
       <<"Do you admire any singer? If yes, who?", "admire_singer">> >>

-----------------------------------------------------------------------------
(* Python values *)

None == "<None>"

\* bool(v) of a value that is None or a str.
Truthy(v) == v # None /\ v # ""

\* A number, and a str standing where a number is expected.
Num(n) == [type |-> "number", n |-> n]
Str == [type |-> "str", n |-> 0]

BaseData ==
    [type |-> "dict", keys |-> {}, years |-> <<>>, netWorth |-> <<>>,
     income |-> <<>>, expenses |-> <<>>]
BaseSummary ==
    [type |-> "dict", keys |-> {}, totalNetWorth |-> Num(0),
     peakNetWorth |-> Num(0), averageGrowth |-> Num(0),
     transitionCost |-> Num(0)]
BaseImpact ==
    [type |-> "dict", keys |-> {}, changes |-> <<>>, financialEffect |-> <<>>]
BaseDoc ==
    [type |-> "dict", keys |-> {}, data |-> BaseData,
     summary |-> BaseSummary, impact |-> BaseImpact]

\* The value None where a parsed document may be stored.
NoneValue == [type |-> "NoneType"]
\* What stands for the value of an expression that raised: never used,
\* since the statements after it do not run.
NoDoc == [BaseDoc EXCEPT !.type = "NoneType"]

-----------------------------------------------------------------------------
(* The texts the completion service may return, and what they parse to *)

Years == [i \in 1..NumYears |-> i]
Series(k) == [i \in 1..NumYears |-> k * i]

\* A slice that starts one element late.
SliceFromNext(s, i) == IF i + 1 >= Len(s) THEN <<>> ELSE SubSeq(s, i + 2, Len(s))
\* s[i:] of a Python list, i a 0-based index, 0 <= i.
SliceFrom(s, i) == IF i >= Len(s) THEN <<>> ELSE SubSeq(s, i + 1, Len(s))
\* zip(a, b): pairs up to the shorter length.
Zip(a, b) ==
    LET n == IF Len(a) <= Len(b) THEN Len(a) ELSE Len(b)
    IN  [i \in 1..n |-> <<a[i], b[i]>>]

DataKeys == {"years", "netWorth", "income", "expenses", "loans"}
FullData(k) ==
    [BaseData EXCEPT !.keys = DataKeys, !.years = Years,
                     !.netWorth = Series(10 * k), !.income = Series(5 * k),
                     !.expenses = Series(3 * k)]
ChartSummary(k) ==
    [BaseSummary EXCEPT !.keys = {"totalNetWorth", "peakNetWorth", "averageGrowth"},
                        !.totalNetWorth = Num(100 * k),
                        !.peakNetWorth = Num(150 * k),
                        !.averageGrowth = Num(10 * k)]
ChartDoc(k) ==
    [BaseDoc EXCEPT !.keys = {"data", "summary"}, !.data = FullData(k),
                    !.summary = ChartSummary(k)]
FullImpact(changes, effects) ==
    [BaseImpact EXCEPT !.keys = {"changes", "financialEffect"},
                       !.changes = changes, !.financialEffect = effects]

NotJson == "not json"

\* The JSON texts of the model, by name, and the value each parses to.
JsonDocument(text) ==
    CASE text = "chart:ok" -> ChartDoc(1)
      [] text = "chart:netWorth14" ->
            [ChartDoc(1) EXCEPT !.data.netWorth = SubSeq(Series(10), 1, NumYears - 1)]
      [] text = "chart:no-summary" -> [ChartDoc(1) EXCEPT !.keys = {"data"}]
      [] text = "chart:data-is-list" -> [ChartDoc(1) EXCEPT !.data.type = "list"]
      [] text = "rev:ok" ->
            [ChartDoc(2) EXCEPT !.keys = {"data", "summary", "impact"},
                                !.impact = FullImpact(<<"c1", "c2">>, <<"e1", "e2">>)]
      [] text = "rev:uneven-impact" ->
            [ChartDoc(2) EXCEPT !.keys = {"data", "summary", "impact"},
                                !.impact = FullImpact(<<"c1", "c2">>, <<"e1">>)]
      [] text = "rev:no-impact" -> ChartDoc(2)
      [] text = "rev:sections" ->
            [BaseDoc EXCEPT !.keys = {"revisedExplanation", "comparison"}]
      [] text = "trans:ok" ->
            [ChartDoc(3) EXCEPT !.keys = {"data", "summary", "impact"},
                                !.summary.keys = @ \cup {"transitionCost"},
                                !.summary.transitionCost = Num(7),
                                !.impact = FullImpact(<<"c1">>, <<"e1">>)]
      [] text = "trans:cost-str" ->
            [ChartDoc(3) EXCEPT !.keys = {"data", "summary", "impact"},
                                !.summary.keys = @ \cup {"transitionCost"},
                                !.summary.transitionCost = Str,
                                !.impact = FullImpact(<<"c1">>, <<"e1">>)]
      [] text = "trans:no-cost" ->
            [ChartDoc(3) EXCEPT !.keys = {"data", "summary", "impact"},
                                !.impact = FullImpact(<<"c1">>, <<"e1">>)]

ChartTexts == {"", NotJson, "chart:ok", "chart:netWorth14", "chart:no-summary",
               "chart:data-is-list"}
RevisionTexts == {NotJson, "rev:ok", "rev:uneven-impact", "rev:no-impact",
                  "rev:sections"}
TransitionTexts == {NotJson, "trans:ok", "trans:cost-str", "trans:no-cost"}
ExplanationTexts == {"", "E1"}
PlanTexts == {"P1"}
JsonTexts == (ChartTexts \cup RevisionTexts \cup TransitionTexts) \ {"", NotJson}

\* JsonDocument as a table, computed once.
Parsed == [text \in JsonTexts |-> JsonDocument(text)]

\* json.loads(s): the exception it raises ("" when none) and the value.
json_loads(s) ==
    IF s = None THEN [exc |-> "TypeError", val |-> NoDoc]
    ELSE IF s \notin JsonTexts THEN [exc |-> "JSONDecodeError", val |-> NoDoc]
    ELSE [exc |-> "", val |-> Parsed[s]]

-----------------------------------------------------------------------------
(* Exceptions *)

\* issubclass(exc, cls) for the exception classes of the model.
IsSubclass(exc, cls) ==
    \/ cls = "Exception"
    \/ exc = cls
    \/ exc = "JSONDecodeError" /\ cls = "ValueError"
    \/ exc \in {"KeyError", "IndexError"} /\ cls = "LookupError"

\* The first exception of a list of statement outcomes, "" when none raised.
FirstExc(excs) ==
    IF \A i \in 1..Len(excs) : excs[i] = "" THEN ""
    ELSE excs[CHOOSE i \in 1..Len(excs) :
                 excs[i] # "" /\ \A j \in 1..(i - 1) : excs[j] = ""]

\* obj[key] for a str key: the exception it raises.
SubscriptExc(obj, key) ==
    IF obj.type # "dict" THEN "TypeError"
    ELSE IF key \notin obj.keys THEN "KeyError"
    ELSE ""

\* f"${v:,.0f}": the exception it raises.
FormatExc(v) == IF v.type = "number" THEN "" ELSE "ValueError"

\* a - b: the exception it raises.
SubtractExc(a, b) ==
    IF a.type = "number" /\ b.type = "number" THEN "" ELSE "TypeError"

\* The except clause (1-based) that handles exc among `clauses`, the classes
\* of the except clauses in order; 0 when no clause does.
ExceptClause(exc, clauses) ==
    IF \E i \in 1..Len(clauses) : IsSubclass(exc, clauses[i])
    THEN CHOOSE i \in 1..Len(clauses) :
            /\ IsSubclass(exc, clauses[i])
            /\ \A j \in 1..(i - 1) : ~IsSubclass(exc, clauses[j])
    ELSE 0

\* What a try statement makes of the exception of its body: the st.error
\* message of the clause that handles it, or the exception left uncaught.
Handled(exc, clauses, messages) ==
    LET c == ExceptClause(exc, clauses)
    IN  [errors |-> IF exc # "" /\ c > 0 THEN {messages[c]} ELSE {},
         uncaught |-> IF exc # "" /\ c = 0 THEN exc ELSE ""]

-----------------------------------------------------------------------------
(* The completion client and the output file *)

\* The reply of the completion service that stands for any failure of the
\* call (unreachable service, authentication, quota): an exception raised
\* inside the try block of query_claude_3_5.
ApiFailure == "<API failure>"

QueryExceptClauses == <<"Exception">>

\* Variant of QueryRequests: a failed request is sent a second time.
QueryRetriesOnFailure(reply) == IF reply = ApiFailure THEN 2 ELSE 1

\* Number of requests one call of query_claude_3_5 sends, given the reply.
QueryRequests(reply) == 1

\* query_claude_3_5(prompt, api_key), given the service's reply: the value
\* returned, the errors shown, the requests sent, the exception let through.
query_claude_3_5(reply) ==
    LET exc == IF reply = ApiFailure THEN "APIError" ELSE ""
        h == Handled(exc, QueryExceptClauses, <<"API call failed">>)
    IN  [ret |-> IF exc = "" THEN reply ELSE None,
         errors |-> h.errors,
         calls |-> QueryRequests(reply),
         uncaught |-> h.uncaught]

\* save_output_to_file(output): the lines it appends to output.txt.
save_output_to_file(output) == IF ~Truthy(output) THEN <<>> ELSE <<output>>

-----------------------------------------------------------------------------
(* What a script run shows *)

NoChart == [title |-> "", x |-> <<>>, ys |-> <<>>, vline |-> 0]

\* A run that pressed no button.
BaseLast ==
    [action |-> "",           \* the button pressed
     calls |-> 0,             \* requests sent to the completion service
     completion |-> None,     \* value query_claude_3_5 returned, if called
     errors |-> {},           \* st.error messages shown
     chart |-> NoChart,       \* figure passed to st.plotly_chart
     pairs |-> <<>>,          \* (change, effect) pairs written
     context |-> <<>>,        \* preference lines put into the revision prompt
     year |-> 0,              \* year named by the annotation of the marker
     saved |-> <<>>,          \* lines appended to output.txt
     uncaught |-> ""]         \* exception that left the handler

-----------------------------------------------------------------------------
(* Get Explanation *)

\* Value stored in session_state["explanation_response"] (line 195).
ExplanationStored(ret, previous) == ret

GetExplanation ==
    \E reply \in {ApiFailure} \cup ExplanationTexts :
        LET q == query_claude_3_5(reply)
        IN  /\ explanation_response' =
                  IF q.uncaught # "" THEN explanation_response
                  ELSE ExplanationStored(q.ret, explanation_response)
            /\ last' = [BaseLast EXCEPT
                           !.action = "Get Explanation",
                           !.calls = q.calls,
                           !.completion = q.ret,
                           !.errors = q.errors,
                           !.saved = IF q.uncaught # "" THEN <<>>
                                     ELSE save_output_to_file(q.ret),
                           !.uncaught = q.uncaught]
            /\ UNCHANGED <<chart_response, responses_history,
                           current_projection, additional_step, show_transition,
                           call>>

-----------------------------------------------------------------------------
(* Show Chart *)

\* Variant of ShowChartEnabled: the button is drawn unconditionally.
ShowChartAlwaysEnabled == TRUE

\* if st.session_state["explanation_response"]: (line 199)
ShowChartEnabled == Truthy(explanation_response)

\* Value stored in session_state["chart_response"] (line 229).
ChartStored(ret, previous) == ret

\* Variant of ShowChartExceptClauses: the last clause, except Exception,
\* is missing.
ShowChartClausesNoCatchAll == <<"JSONDecodeError", "KeyError">>

ShowChartExceptClauses == <<"JSONDecodeError", "KeyError", "Exception">>
ShowChartMessages == <<"Invalid JSON format", "Missing required data", "Error">>

\* The try body of the handler: the exception it raises and the figure it
\* has drawn by then.
ShowChartTry(chart_text) ==
    LET p == json_loads(chart_text)
        data == p.val
        plot == FirstExc(<<p.exc,
                           SubscriptExc(data, "data"),
                           SubscriptExc(data.data, "years"),
                           SubscriptExc(data.data, "netWorth"),
                           SubscriptExc(data.data, "income"),
                           SubscriptExc(data.data, "expenses")>>)
        metrics == FirstExc(<<SubscriptExc(data, "summary"),
                              SubscriptExc(data.summary, "totalNetWorth"),
                              FormatExc(data.summary.totalNetWorth),
                              SubscriptExc(data.summary, "peakNetWorth"),
                              FormatExc(data.summary.peakNetWorth),
                              SubscriptExc(data.summary, "averageGrowth"),
                              FormatExc(data.summary.averageGrowth)>>)
    IN  IF plot # "" THEN [exc |-> plot, chart |-> NoChart]
        ELSE [exc |-> metrics,
              chart |-> [title |-> "15-Year Financial Projection",
                         x |-> data.data.years,
                         ys |-> <<data.data.netWorth, data.data.income,
                                  data.data.expenses>>,
                         vline |-> 0]]

\* ShowChartTry as a table, computed once.
ShowChartOutcome == [c \in {None} \cup ChartTexts |-> ShowChartTry(c)]

ShowChart ==
    /\ ShowChartEnabled
    /\ \E reply \in {ApiFailure} \cup ChartTexts :
        LET q == query_claude_3_5(reply)
            t == ShowChartOutcome[q.ret]
            h == Handled(t.exc, ShowChartExceptClauses, ShowChartMessages)
        IN  IF q.uncaught # ""
            THEN /\ last' = [BaseLast EXCEPT !.action = "Show Chart",
                                             !.calls = q.calls,
                                             !.uncaught = q.uncaught]
                 /\ UNCHANGED chart_response
            ELSE /\ chart_response' = ChartStored(q.ret, chart_response)
                 /\ last' = [BaseLast EXCEPT
                                !.action = "Show Chart",
                                !.calls = q.calls,
                                !.completion = q.ret,
                                !.errors = q.errors \cup h.errors,
                                !.chart = t.chart,
                                !.uncaught = h.uncaught]
    /\ UNCHANGED <<explanation_response, responses_history,
                   current_projection, additional_step, show_transition, call>>

-----------------------------------------------------------------------------
(* Generate Recommended Plans *)

\* if st.session_state["chart_response"]: (line 290)
PlansEnabled == Truthy(chart_response)

GeneratePlans ==
    /\ PlansEnabled
    /\ \E reply \in {ApiFailure} \cup PlanTexts :
        LET q == query_claude_3_5(reply)
        IN  last' = [BaseLast EXCEPT
                        !.action = "Generate Recommended Plans",
                        !.calls = q.calls,
                        !.completion = q.ret,
                        !.errors = q.errors,
                        !.saved = IF q.uncaught # "" THEN <<>>
                                  ELSE save_output_to_file(q.ret),
                        !.uncaught = q.uncaught]
    /\ UNCHANGED <<explanation_response, chart_response, responses_history,
                   current_projection, additional_step, show_transition, call>>

-----------------------------------------------------------------------------
(* Next Step and the preference question *)

NextStep ==
    /\ additional_step < MaxStep
    /\ additional_step' = additional_step + 1
    /\ last' = [BaseLast EXCEPT !.action = "Next Step"]
    /\ UNCHANGED <<explanation_response, chart_response, responses_history,
                   current_projection, show_transition, call>>

\* A step block that leaves out the last question.
StepActiveBeforeLast ==
    additional_step > 0 /\ additional_step < Len(additional_variables)
\* if step > 0 and step <= len(additional_variables): (line 327)
StepActive ==
    additional_step > 0 /\ additional_step <= Len(additional_variables)

question == additional_variables[additional_step][1]
var_name == additional_variables[additional_step][2]

\* What the widget of the question returns: st.checkbox a bool (written as
\* Python prints it), st.text_input the text typed.
WidgetResponses ==
    IF var_name \in {"like_money", "like_cars"} THEN {"True", "False"}
    ELSE {"cat"}

-----------------------------------------------------------------------------
(* Revise Projection *)

\* The button is drawn inside the step block only (lines 327, 334).
ReviseEnabled == StepActive

\* A history that holds the newest entry only.
HistoryOverwritten(history, q, response) ==
    <<[question |-> q, response |-> response]>>
\* responses_history after the handler's append (lines 336-339).
HistoryAppended(history, q, response) ==
    Append(history, [question |-> q, response |-> response])

\* The lines of `context` (lines 342-345), before "\n".join.
ContextLines(history) ==
    [i \in 1..Len(history) |->
        "- " \o history[i].question \o ": " \o history[i].response]

ReviseExceptClauses == <<"JSONDecodeError", "Exception">>
ReviseMessages == <<"Failed to parse the projection data", "An error occurred">>

\* The try body of the handler: the exception it raises, the figure drawn
\* and pairs written by then, and whether line 433 was reached.
ReviseTry(revised_text, chart_text) ==
    LET r == json_loads(revised_text)
        o == json_loads(chart_text)
        revised_data == r.val
        original_data == o.val
        plot == FirstExc(<<r.exc, o.exc,
                           SubscriptExc(original_data, "data"),
                           SubscriptExc(original_data.data, "years"),
                           SubscriptExc(original_data.data, "netWorth"),
                           SubscriptExc(revised_data, "data"),
                           SubscriptExc(revised_data.data, "netWorth"),
                           SubscriptExc(original_data.data, "income"),
                           SubscriptExc(revised_data.data, "income"),
                           SubscriptExc(original_data.data, "expenses"),
                           SubscriptExc(revised_data.data, "expenses")>>)
        impact == FirstExc(<<SubscriptExc(revised_data, "impact"),
                             SubscriptExc(revised_data.impact, "changes"),
                             SubscriptExc(revised_data.impact, "financialEffect")>>)
        fig == [title |-> "15-Year Financial Projection Comparison",
                x |-> original_data.data.years,
                ys |-> <<original_data.data.netWorth, revised_data.data.netWorth,
                         original_data.data.income, revised_data.data.income,
                         original_data.data.expenses, revised_data.data.expenses>>,
                vline |-> 0]
    IN  IF plot # ""
        THEN [exc |-> plot, chart |-> NoChart, pairs |-> <<>>,
              committed |-> FALSE, data |-> revised_data]
        ELSE IF impact # ""
        THEN [exc |-> impact, chart |-> fig, pairs |-> <<>>,
              committed |-> FALSE, data |-> revised_data]
        ELSE [exc |-> "", chart |-> fig,
              pairs |-> Zip(revised_data.impact.changes,
                            revised_data.impact.financialEffect),
              committed |-> TRUE, data |-> revised_data]

\* ReviseTry as a table, computed once.
ReviseOutcome ==
    [r \in {None} \cup RevisionTexts, c \in {None} \cup ChartTexts |-> ReviseTry(r, c)]

\* The handler, in a session of at most `entries` revisions.
Revise(entries) ==
    /\ ReviseEnabled
    /\ Len(responses_history) < entries
    /\ \E response \in WidgetResponses, reply \in {ApiFailure} \cup RevisionTexts :
        LET q == query_claude_3_5(reply)
            t == ReviseOutcome[q.ret, chart_response]
            h == Handled(t.exc, ReviseExceptClauses, ReviseMessages)
        IN  /\ responses_history' =
                  HistoryAppended(responses_history, question, response)
            /\ IF q.uncaught # ""
               THEN /\ last' = [BaseLast EXCEPT !.action = "Revise Projection",
                                                !.calls = q.calls,
                                                !.context = ContextLines(responses_history'),
                                                !.uncaught = q.uncaught]
                    /\ UNCHANGED current_projection
               ELSE /\ current_projection' =
                          IF t.committed THEN t.data ELSE current_projection
                    /\ last' = [BaseLast EXCEPT
                                   !.action = "Revise Projection",
                                   !.calls = q.calls,
                                   !.completion = q.ret,
                                   !.errors = q.errors \cup h.errors,
                                   !.chart = t.chart,
                                   !.pairs = t.pairs,
                                   !.context = ContextLines(responses_history'),
                                   !.uncaught = h.uncaught]
    /\ UNCHANGED <<explanation_response, chart_response, additional_step,
                   show_transition, call>>

ReviseProjection == Revise(MaxHistory)

-----------------------------------------------------------------------------
(* Change Career/Education Path and Calculate Path Change Impact *)

\* The button is drawn inside the step block only (lines 327, 440).
ChangePathEnabled == StepActive

ChangePath ==
    /\ ChangePathEnabled
    /\ show_transition' = TRUE
    /\ last' = [BaseLast EXCEPT !.action = "Change Career/Education Path"]
    /\ UNCHANGED <<explanation_response, chart_response, responses_history,
                   current_projection, additional_step, call>>

\* Inside the step block, if "show_transition" is set (lines 327, 443, 475).
CalculateEnabled == StepActive /\ show_transition

\* Positions of the slider "Select year to make the change" (1..15) the
\* model tries: both ends and the default.
YearChoices == {1, DefaultYear, NumYears}

CalculateExceptClauses == <<"Exception">>
CalculateMessages == <<"Error calculating transition impact">>

\* The try body of the handler: the exception it raises, the figure drawn
\* by then and the year its marker is annotated with (line 549).
CalculateTry(transition_text, chart_text, transition_year) ==
    LET tr == json_loads(transition_text)
        o == json_loads(chart_text)
        transition_data == tr.val
        original_data == o.val
        transition_index == transition_year - 1
        plot == FirstExc(<<tr.exc, o.exc,
                           SubscriptExc(original_data, "data"),
                           SubscriptExc(original_data.data, "years"),
                           SubscriptExc(original_data.data, "netWorth"),
                           SubscriptExc(transition_data, "data"),
                           SubscriptExc(transition_data.data, "netWorth")>>)
        metrics == FirstExc(<<SubscriptExc(transition_data, "summary"),
                              SubscriptExc(transition_data.summary, "totalNetWorth"),
                              SubscriptExc(original_data, "summary"),
                              SubscriptExc(original_data.summary, "totalNetWorth"),
                              SubtractExc(transition_data.summary.totalNetWorth,
                                          original_data.summary.totalNetWorth),
                              SubscriptExc(transition_data.summary, "transitionCost"),
                              FormatExc(transition_data.summary.transitionCost),
                              SubscriptExc(transition_data, "impact"),
                              SubscriptExc(transition_data.impact, "changes")>>)
    IN  IF plot # "" THEN [exc |-> plot, chart |-> NoChart, year |-> 0]
        ELSE [exc |-> metrics,
              year |-> transition_year,
              chart |-> [title |-> "Financial Impact of Career/Education Change",
                         x |-> SliceFrom(original_data.data.years, transition_index),
                         ys |-> <<SliceFrom(original_data.data.netWorth,
                                            transition_index),
                                  SliceFrom(transition_data.data.netWorth,
                                            transition_index)>>,
                         vline |-> transition_year]]

\* CalculateTry as a table, computed once.
CalculateOutcome ==
    [r \in {None} \cup TransitionTexts, c \in {None} \cup ChartTexts, y \in 1..NumYears
        |-> CalculateTry(r, c, y)]

\* The handler, the slider standing at one of `years`.
Calculate(years) ==
    /\ CalculateEnabled
    /\ \E transition_year \in years,
          reply \in {ApiFailure} \cup TransitionTexts :
        LET q == query_claude_3_5(reply)
            t == CalculateOutcome[q.ret, chart_response, transition_year]
            h == Handled(t.exc, CalculateExceptClauses, CalculateMessages)
        IN  IF q.uncaught # ""
            THEN last' = [BaseLast EXCEPT
                             !.action = "Calculate Path Change Impact",
                             !.calls = q.calls,
                             !.uncaught = q.uncaught]
            ELSE last' = [BaseLast EXCEPT
                             !.action = "Calculate Path Change Impact",
                             !.calls = q.calls,
                             !.completion = q.ret,
                             !.errors = q.errors \cup h.errors,
                             !.chart = t.chart,
                             !.year = t.year,
                             !.uncaught = h.uncaught]
    /\ UNCHANGED <<explanation_response, chart_response, responses_history,
                   current_projection, additional_step, show_transition, call>>

CalculatePathChange == Calculate(YearChoices)

-----------------------------------------------------------------------------
(* Direct calls of the helper functions *)

\* No helper function has been called directly.
NoCall == [fn |-> ""]

\* The session variables, which a helper function does not touch.
session == <<explanation_response, chart_response, responses_history,
             current_projection, additional_step, show_transition, last>>

\* Values of a cell of the wage table's A_MEAN column: a float (held as
\* cents, or NaN for an empty cell) or a str (held as its characters).
Float(cents) == [type |-> "float", cents |-> cents, nan |-> FALSE]
NaN == [type |-> "float", cents |-> 0, nan |-> TRUE]
Text(chars) == [type |-> "str", chars |-> chars]

Digits == <<"0", "1", "2", "3", "4", "5", "6", "7", "8", "9">>
IsDigit(c) == \E d \in 1..Len(Digits) : Digits[d] = c
DigitValue(c) == (CHOOSE d \in 1..Len(Digits) : Digits[d] = c) - 1

RECURSIVE DecimalValue(_)
DecimalValue(cs) ==
    IF cs = <<>> THEN 0
    ELSE 10 * DecimalValue(SubSeq(cs, 1, Len(cs) - 1)) + DigitValue(cs[Len(cs)])

\* float(x): the exception it raises and the value.  Of the str literals
\* float accepts, the unsigned decimals of at most two fraction digits.
float(x) ==
    IF x.type = "float" THEN [exc |-> "", val |-> x]
    ELSE IF x.type # "str" THEN [exc |-> "TypeError", val |-> NaN]
    ELSE LET cs == x.chars
             dots == {i \in 1..Len(cs) : cs[i] = "."}
             dot == IF dots = {} THEN Len(cs) + 1 ELSE CHOOSE i \in dots : TRUE
             whole == SubSeq(cs, 1, dot - 1)
             frac == SubSeq(cs, dot + 1, Len(cs))
             literal == /\ Cardinality(dots) <= 1
                        /\ \A i \in (1..Len(cs)) \ dots : IsDigit(cs[i])
                        /\ Len(whole) + Len(frac) >= 1
                        /\ Len(frac) <= 2
         IN  IF ~literal THEN [exc |-> "ValueError", val |-> NaN]
             ELSE [exc |-> "",
                   val |-> Float(100 * DecimalValue(whole)
                                 + (IF Len(frac) = 1 THEN 10 ELSE 1)
                                   * DecimalValue(frac))]

\* The decimal digits of n >= 0.
RECURSIVE Plain(_)
Plain(n) == IF n < 10 THEN Digits[n + 1] ELSE Plain(n \div 10) \o Digits[(n % 10) + 1]

\* The digits of n >= 0 in groups of three, "," between the groups.
RECURSIVE Grouped(_)
Grouped(n) ==
    IF n < 1000 THEN Plain(n)
    ELSE Grouped(n \div 1000) \o ","
            \o Digits[((n % 1000) \div 100) + 1]
            \o Digits[((n % 100) \div 10) + 1]
            \o Digits[(n % 10) + 1]

\* "${:,.2f}".format(v) of a float v >= 0.
DollarFormat(v) ==
    IF v.nan THEN "$nan"
    ELSE "$" \o Grouped(v.cents \div 100) \o "."
             \o Digits[((v.cents % 100) \div 10) + 1] \o Digits[(v.cents % 10) + 1]

FormatSalaryExceptClauses == <<"ValueError", "TypeError">>

format_salary(salary) ==
    LET f == float(salary)
    IN  IF f.exc = "" THEN [ret |-> DollarFormat(f.val), exc |-> ""]
        ELSE IF ExceptClause(f.exc, FormatSalaryExceptClauses) > 0
        THEN [ret |-> "N/A", exc |-> ""]
        ELSE [ret |-> None, exc |-> f.exc]

\* Wage cells, each with what Python displays for it through
\* "${:,.2f}".format(float(cell)), "N/A" standing for a ValueError or
\* TypeError of float.
WageExamples ==
    { <<Float(0), "$0.00">>,
      <<Float(99950), "$999.50">>,
      <<Float(4821000), "$48,210.00">>,
      <<Float(123456789), "$1,234,567.89">>,
      <<NaN, "$nan">>,
      <<Text(<<"4", "8", "2", "1", "0">>), "$48,210.00">>,
      <<Text(<<"3", "1", ".", "5">>), "$31.50">>,
      <<Text(<<"4", "8", ",", "2", "1", "0">>), "N/A">>,
      <<Text(<<"*">>), "N/A">>,
      <<NoneValue, "N/A">> }
Wages == {e[1] : e \in WageExamples}

\* The wage table df_occ: rows of AREA_TITLE, OCC_TITLE and A_MEAN.
Areas == {"Fresno", "Napa"}
Occupations == {"Chefs", "Nurses"}
MaxRows == 2
WageRows == [AREA_TITLE : Areas, OCC_TITLE : Occupations, A_MEAN : Wages]
WageTables == UNION {[1..n -> WageRows] : n \in 0..MaxRows}

\* df_occ[(AREA_TITLE == area) & (OCC_TITLE == occupation)]['A_MEAN']:
\* the cells of the matching rows, in table order.
MatchingWages(df_occ, area, occupation) ==
    LET match(row) == row.AREA_TITLE = area /\ row.OCC_TITLE = occupation
    IN  [i \in 1..Cardinality({j \in 1..Len(df_occ) : match(df_occ[j])}) |->
            df_occ[CHOOSE j \in 1..Len(df_occ) :
                      /\ match(df_occ[j])
                      /\ Cardinality({k \in 1..j : match(df_occ[k])}) = i].A_MEAN]

\* The last element of a series, where .iloc[0] takes the first.
ilocLast(series) ==
    IF series = <<>> THEN [exc |-> "IndexError", val |-> NaN]
    ELSE [exc |-> "", val |-> series[Len(series)]]
\* series.iloc[0]
iloc0(series) ==
    IF series = <<>> THEN [exc |-> "IndexError", val |-> NaN]
    ELSE [exc |-> "", val |-> series[1]]

LookupExceptClauses == <<"IndexError">>

\* Lines 135-142: formatted_salary, and the exception that leaves the try
\* statement ("" when none).
SalaryLookup(df_occ, area, occupation) ==
    LET salary_info == iloc0(MatchingWages(df_occ, area, occupation))
        formatted == format_salary(salary_info.val)
        exc == FirstExc(<<salary_info.exc, formatted.exc>>)
    IN  IF exc = "" THEN [formatted_salary |-> formatted.ret, exc |-> ""]
        ELSE IF ExceptClause(exc, LookupExceptClauses) > 0
        THEN [formatted_salary |-> "N/A", exc |-> ""]
        ELSE [formatted_salary |-> None, exc |-> exc]

LookupSalary ==
    /\ call = NoCall
    /\ \E df_occ \in WageTables, area \in Areas, occupation \in Occupations :
          LET r == SalaryLookup(df_occ, area, occupation)
          IN  call' = [fn |-> "salary lookup", df_occ |-> df_occ, area |-> area,
                       occupation |-> occupation,
                       formatted_salary |-> r.formatted_salary, exc |-> r.exc]
    /\ UNCHANGED session

\* list[i] for a 0-based index i >= 0: the exception it raises.
IndexExc(list, i) == IF i < Len(list) THEN "" ELSE "IndexError"

\* One pass of the loop of validate_projection_data (lines 94-96), i the
\* 0-based index: the exception it raises.  `or` evaluates its right side
\* only when the net worths are equal.
PreTransitionExc(original, revised, i) ==
    IF IndexExc(original.netWorth, i) # "" \/ IndexExc(revised.netWorth, i) # ""
    THEN "IndexError"
    ELSE IF original.netWorth[i + 1] # revised.netWorth[i + 1] THEN "ValueError"
    ELSE IF IndexExc(original.income, i) # "" \/ IndexExc(revised.income, i) # ""
    THEN "IndexError"
    ELSE IF original.income[i + 1] # revised.income[i + 1] THEN "ValueError"
    ELSE ""

\* The return value (as Python prints it) and the exception raised.
validate_projection_data(original_data, revised_data, transition_year) ==
    LET subscripts == FirstExc(<<SubscriptExc(original_data, "data"),
                                 SubscriptExc(original_data.data, "years"),
                                 SubscriptExc(revised_data, "data"),
                                 SubscriptExc(revised_data.data, "years")>>)
        passes == [i \in 1..(transition_year - 1) |->
                      FirstExc(<<SubscriptExc(original_data.data, "netWorth"),
                                 SubscriptExc(revised_data.data, "netWorth"),
                                 PreTransitionExc(original_data.data,
                                                  revised_data.data, i - 1)>>)]
    IN  IF subscripts # "" THEN [ret |-> None, exc |-> subscripts]
        ELSE IF Len(original_data.data.years) # Len(revised_data.data.years)
        THEN [ret |-> None, exc |-> "ValueError"]
        ELSE IF FirstExc(passes) # "" THEN [ret |-> None, exc |-> FirstExc(passes)]
        ELSE [ret |-> "True", exc |-> ""]

\* Projections in the shape of the chart prompt: a full one, and ones that
\* differ from it from year 5 on, in income, in expenses only, in the number
\* of years, and in holding 3 net worths or 3 incomes only.
SampleProjections ==
    { ChartDoc(1),
      [ChartDoc(1) EXCEPT !.data.netWorth =
          [i \in 1..NumYears |-> IF i < DefaultYear THEN 10 * i ELSE 11 * i]],
      [ChartDoc(1) EXCEPT !.data.income = Series(6)],
      [ChartDoc(1) EXCEPT !.data.expenses = Series(4)],
      [ChartDoc(1) EXCEPT !.data.years = SubSeq(Years, 1, NumYears - 1)],
      [ChartDoc(1) EXCEPT !.data.netWorth = SubSeq(Series(10), 1, 3)],
      [ChartDoc(1) EXCEPT !.data.income = SubSeq(Series(5), 1, 3)] }

ValidateProjection ==
    /\ call = NoCall
    /\ \E original_data \in SampleProjections, revised_data \in SampleProjections,
          transition_year \in 1..NumYears :
          LET r == validate_projection_data(original_data, revised_data,
                                            transition_year)
          IN  call' = [fn |-> "validate_projection_data",
                       original_data |-> original_data,
                       revised_data |-> revised_data,
                       transition_year |-> transition_year,
                       ret |-> r.ret, exc |-> r.exc]
    /\ UNCHANGED session

\* Revision payloads keyed by section labels.  yearlyBreakdown holds the
\* value under the key "4. YEARLY BREAKDOWN" of the dict, when it has one.
SectionLabels ==
    {"1. EDUCATION COSTS", "2. FINANCIAL AID", "3. CAREER PROJECTION",
     "4. YEARLY BREAKDOWN"}
BreakdownKeys ==
    <<"netWorthProgression", "incomeProgression", "expenseProgression",
      "totalNetWorth", "peakNetWorth", "averageGrowth">>
BaseBreakdown ==
    [type |-> "dict", keys |-> {}, netWorthProgression |-> <<>>,
     incomeProgression |-> <<>>, expenseProgression |-> <<>>,
     totalNetWorth |-> Num(0), peakNetWorth |-> Num(0), averageGrowth |-> Num(0)]
BaseSections == [type |-> "dict", keys |-> {}, yearlyBreakdown |-> BaseBreakdown]
BasePayload ==
    [type |-> "dict", keys |-> {}, revisedExplanation |-> BaseSections,
     yearlyBreakdown |-> BaseBreakdown]

FullBreakdown(k) ==
    [BaseBreakdown EXCEPT
        !.keys = {BreakdownKeys[i] : i \in 1..Len(BreakdownKeys)},
        !.netWorthProgression = Series(10 * k),
        !.incomeProgression = Series(5 * k),
        !.expenseProgression = Series(3 * k),
        !.totalNetWorth = Num(100 * k),
        !.peakNetWorth = Num(150 * k),
        !.averageGrowth = Num(10 * k)]
\* The four section labels nested under "revisedExplanation", and
\* "comparison" beside it.
DocumentedPayload(k) ==
    [BasePayload EXCEPT
        !.keys = {"revisedExplanation", "comparison"},
        !.revisedExplanation = [BaseSections EXCEPT
                                   !.keys = SectionLabels,
                                   !.yearlyBreakdown = FullBreakdown(k)]]
\* The same with a "4. YEARLY BREAKDOWN" of its own at the top level.
ToppedPayload(k, breakdown) ==
    [DocumentedPayload(k) EXCEPT !.keys = @ \cup {"4. YEARLY BREAKDOWN"},
                                 !.yearlyBreakdown = breakdown]
SamplePayloads ==
    { DocumentedPayload(1), DocumentedPayload(2),
      ToppedPayload(1, FullBreakdown(1)), ToppedPayload(1, FullBreakdown(3)),
      ToppedPayload(1, [FullBreakdown(1) EXCEPT !.keys = @ \ {"averageGrowth"}]),
      [DocumentedPayload(1) EXCEPT !.keys = {"revisedExplanation"}],
      [BasePayload EXCEPT !.keys = {"data", "summary", "impact"}] }

required_keys == {"revisedExplanation", "comparison"}

\* all(key in data for key in required_keys), data a dict.
validate_json_structure(data) == \A key \in required_keys : key \in data.keys

\* The projection returned and the exception raised.
format_revised_projection(original_data, revised_data) ==
    LET breakdown == revised_data.yearlyBreakdown
        lookups == FirstExc([i \in 1..Len(BreakdownKeys) |->
                       FirstExc(<<SubscriptExc(revised_data, "4. YEARLY BREAKDOWN"),
                                  SubscriptExc(breakdown, BreakdownKeys[i])>>)])
    IN  IF ~validate_json_structure(revised_data)
        THEN [ret |-> NoneValue, exc |-> "ValueError"]
        ELSE IF lookups # "" THEN [ret |-> NoneValue, exc |-> lookups]
        ELSE [ret |-> [data |-> [years |-> Years,
                                 netWorth |-> breakdown.netWorthProgression,
                                 income |-> breakdown.incomeProgression,
                                 expenses |-> breakdown.expenseProgression],
                       summary |-> [totalNetWorth |-> breakdown.totalNetWorth,
                                    peakNetWorth |-> breakdown.peakNetWorth,
                                    averageGrowth |-> breakdown.averageGrowth]],
              exc |-> ""]

FormatRevised ==
    /\ call = NoCall
    /\ \E original_data \in SampleProjections, revised_data \in SamplePayloads :
          LET r == format_revised_projection(original_data, revised_data)
          IN  call' = [fn |-> "format_revised_projection",
                       original_data |-> original_data,
                       revised_data |-> revised_data,
                       ret |-> r.ret, exc |-> r.exc]
    /\ UNCHANGED session

-----------------------------------------------------------------------------
(* The session *)

Init ==
    /\ explanation_response = ""
    /\ chart_response = ""
    /\ responses_history = <<>>
    /\ current_projection = NoneValue
    /\ additional_step = 0
    /\ show_transition = FALSE
    /\ last = BaseLast
    /\ call = NoCall

Next ==
    \/ GetExplanation
    \/ ShowChart
    \/ GeneratePlans
    \/ NextStep
    \/ ReviseProjection
    \/ ChangePath
    \/ CalculatePathChange

Spec == Init /\ [][Next]_vars

\* The transition panel: the sessions in which the panel is open (an
\* explanation stored, Show Chart run with any outcome, a question on
\* display, Change Career/Education Path pressed), and the Calculate handler
\* with the slider at every position.
TransitionInit ==
    /\ explanation_response \in ExplanationTexts \ {""}
    /\ chart_response \in {None} \cup ChartTexts
    /\ responses_history = <<>>
    /\ current_projection = NoneValue
    /\ additional_step \in 1..Len(additional_variables)
    /\ show_transition = TRUE
    /\ last = [BaseLast EXCEPT !.action = "Change Career/Education Path"]
    /\ call = NoCall

CalculateEveryYear == Calculate(1..NumYears)

TransitionSpec == TransitionInit /\ [][CalculateEveryYear]_vars

\* The sessions that have pressed Next Step up to the third question from
\* the end and nothing else, with room for MaxEntries revisions.
HistoryInit ==
    /\ explanation_response = ""
    /\ chart_response = ""
    /\ responses_history = <<>>
    /\ current_projection = NoneValue
    /\ additional_step = Len(additional_variables) - 2
    /\ show_transition = FALSE
    /\ last = [BaseLast EXCEPT !.action = "Next Step"]
    /\ call = NoCall

ReviseRepeatedly == Revise(MaxEntries)

HistoryNext ==
    \/ GetExplanation
    \/ ShowChart
    \/ GeneratePlans
    \/ NextStep
    \/ ReviseRepeatedly
    \/ ChangePath
    \/ CalculatePathChange

HistorySpec == HistoryInit /\ [][HistoryNext]_vars

\* The helper functions: one direct call of one of them, on any input of the
\* bounded sets.
HelperNext ==
    \/ LookupSalary
    \/ ValidateProjection
    \/ FormatRevised

HelperSpec == Init /\ [][HelperNext]_vars

-----------------------------------------------------------------------------
(* Properties *)

CallActions ==
    {"Get Explanation", "Show Chart", "Generate Recommended Plans",
     "Revise Projection", "Calculate Path Change Impact"}
AllTexts ==
    ExplanationTexts \cup ChartTexts \cup PlanTexts \cup RevisionTexts
        \cup TransitionTexts

\* C1: when Get Explanation runs and the completion call fails, a stored
\* non-empty explanation_response keeps its value, an inline error is
\* shown and no exception leaves the handler.
C1_ExplanationKeptOnFailure ==
    [][(/\ Truthy(explanation_response)
        /\ last'.action = "Get Explanation"
        /\ last'.completion = None)
       => /\ explanation_response' = explanation_response
          /\ "API call failed" \in last'.errors
          /\ last'.uncaught = ""]_vars

\* C2: nothing has been returned when the session starts; a Show Chart
\* run starts only from a state whose explanation_response is non-empty and
\* a Generate Recommended Plans run only from one whose chart_response is
\* non-empty; and a response becomes non-empty only by the text that the
\* Get Explanation (resp. Show Chart) of that run got from the completion
\* client.  Hence no chart call precedes an explanation that returned text,
\* and no plan call a chart call that returned text.
C2_StagesGated ==
    /\ ~Truthy(explanation_response) /\ ~Truthy(chart_response)
    /\ [][/\ last'.action = "Show Chart" => Truthy(explanation_response)
          /\ last'.action = "Generate Recommended Plans" => Truthy(chart_response)
          /\ (Truthy(explanation_response')
                /\ explanation_response' # explanation_response)
             => /\ last'.action = "Get Explanation"
                /\ last'.calls = 1
                /\ last'.completion = explanation_response'
          /\ (Truthy(chart_response') /\ chart_response' # chart_response)
             => /\ last'.action = "Show Chart"
                /\ last'.calls = 1
                /\ last'.completion = chart_response']_vars

\* A plan call was issued, after a chart call that returned text.
C2_Witness ==
    /\ last.action = "Generate Recommended Plans"
    /\ last.calls = 1
    /\ Truthy(chart_response)

\* C3: a revision or transition completion call is issued only while
\* chart_response is present and non-empty (neither handler changes
\* chart_response, so its value after the run is the one the run read).
C3_RevisionNeedsChart ==
    (last.action \in {"Revise Projection", "Calculate Path Change Impact"}
        /\ last.calls > 0)
    => Truthy(chart_response)

\* chart_text is a response the Show Chart handler renders without error.
RendersAsChart(chart_text) ==
    /\ chart_text \in {None} \cup ChartTexts
    /\ ShowChartOutcome[chart_text].exc = ""

\* C4: when Show Chart receives a text that fails validation, a stored
\* valid chart_response keeps its value.
C4_ChartKeptOnInvalid ==
    [][(/\ RendersAsChart(chart_response)
        /\ last'.action = "Show Chart"
        /\ last'.completion # None
        /\ last'.errors # {})
       => chart_response' = chart_response]_vars

\* C5: when the completion call of Revise Projection fails or its response
\* fails validation, the session state after the run equals the state
\* before it.
C5_ReviseFailureKeepsState ==
    [][(last'.action = "Revise Projection" /\ last'.errors # {})
       => UNCHANGED <<responses_history, current_projection,
                      explanation_response, chart_response,
                      additional_step>>]_vars

\* C6: Show Chart draws a chart only if years is exactly 1..15 and the
\* netWorth, income and expenses series each have exactly 15 elements;
\* otherwise it reports an error and draws nothing.
C6_ChartSeriesLength ==
    last.action = "Show Chart" /\ last.completion \in JsonTexts
    => LET data == Parsed[last.completion].data
           wellFormed ==
               /\ data.years = Years
               /\ \A s \in {data.netWorth, data.income, data.expenses} :
                     Len(s) = NumYears
       IN  IF wellFormed THEN TRUE
           ELSE last.chart = NoChart /\ last.errors # {}

\* C7: a revision response without the top-level key "comparison" fails
\* validation: an error is shown, no comparison chart is drawn and
\* current_projection keeps its value.
C7_RevisionNeedsComparison ==
    [][(/\ last'.action = "Revise Projection"
        /\ last'.completion \in JsonTexts
        /\ "comparison" \notin Parsed[last'.completion].keys)
       => /\ last'.errors # {}
          /\ last'.chart = NoChart
          /\ current_projection' = current_projection]_vars

\* C8: within one run of Show Chart, Revise Projection or Calculate Path
\* Change Impact, a chart is not drawn together with an error reported.
C8_ChartOrError ==
    last.action \in {"Show Chart", "Revise Projection",
                     "Calculate Path Change Impact"}
    => ~(last.chart # NoChart /\ last.errors # {})

\* C9: after every run, whatever the completion outcome, no exception has
\* left the handler, the completion client has returned a text or None
\* (None with its error shown), and a further action can be taken.
C9_NoUncaughtException ==
    /\ last.uncaught = ""
    /\ last.action \in CallActions
       => /\ last.completion \in {None} \cup AllTexts
          /\ last.completion = None => "API call failed" \in last.errors
    /\ ENABLED GetExplanation

\* A handler met an exception in its try body, after the completion client
\* returned None, and reported it.
C9_Witness ==
    /\ last.action = "Show Chart"
    /\ last.completion = None
    /\ last.errors = {"API call failed", "Error"}

\* C10: a run sends at most one request to the completion service, also
\* when the call fails or the response is invalid; Next Step and Change
\* Career/Education Path send none.
C10_AtMostOneCall ==
    /\ last.calls <= 1
    /\ last.action \in {"Next Step", "Change Career/Education Path"}
       => last.calls = 0

\* A run whose call failed, and one whose response was invalid, each with
\* one request sent.
C10_Witness ==
    /\ last.action = "Revise Projection"
    /\ last.errors # {}
    /\ last.calls = 1

\* C11: every text the completion client returns to a run (explanation,
\* chart, plan, revision, transition) is appended by that run as one line
\* to the output file, and a run whose completion returned no text appends
\* nothing.
C11_EveryResponseLogged ==
    last.action \in CallActions
    => last.saved = (IF Truthy(last.completion) THEN <<last.completion>> ELSE <<>>)

\* C12: a Revise Projection run whose payload has impact.changes and
\* impact.financialEffect of different lengths reports no error, writes
\* exactly the first min(len, len) change/effect pairs, the i-th change with
\* the i-th effect, and commits the payload as current_projection.
C12_UnevenImpactTruncated ==
    [][(/\ last'.action = "Revise Projection"
        /\ last'.completion \in JsonTexts
        /\ LET impact == Parsed[last'.completion].impact
           IN  /\ {"changes", "financialEffect"} \subseteq impact.keys
               /\ Len(impact.changes) # Len(impact.financialEffect))
       => LET impact == Parsed[last'.completion].impact
              n == IF Len(impact.changes) <= Len(impact.financialEffect)
                   THEN Len(impact.changes) ELSE Len(impact.financialEffect)
          IN  /\ last'.errors = {}
              /\ Len(last'.pairs) = n
              /\ \A i \in 1..n :
                    last'.pairs[i] = <<impact.changes[i], impact.financialEffect[i]>>
              /\ current_projection' = Parsed[last'.completion]]_vars

\* doc carries the series named: a 15-element list under each name in
\* doc["data"].
CarriesSeries(doc, names) ==
    /\ doc.type = "dict" /\ "data" \in doc.keys
    /\ doc.data.type = "dict" /\ names \subseteq doc.data.keys
    /\ \A name \in names :
          Len(CASE name = "years" -> doc.data.years
                [] name = "netWorth" -> doc.data.netWorth
                [] name = "income" -> doc.data.income
                [] OTHER -> doc.data.expenses) = NumYears

\* C13: for every transition year t in 1..15, when the stored chart and the
\* transition payload both carry 15-element series, Calculate Path Change
\* Impact plots both net-worth series from year t on: the x-axis is the
\* years t..15 (16 - t points), both series are as long as the x-axis, the
\* first point of each is its year-t value, and the marker stands at x = t.
C13_SlicedFromTransitionYear ==
    (/\ last.action = "Calculate Path Change Impact"
     /\ last.completion \in JsonTexts
     /\ chart_response \in JsonTexts
     /\ CarriesSeries(Parsed[chart_response], {"years", "netWorth"})
     /\ Parsed[chart_response].data.years = Years
     /\ CarriesSeries(Parsed[last.completion], {"netWorth"}))
    => LET t == last.year
           original_data == Parsed[chart_response]
           transition_data == Parsed[last.completion]
       IN  /\ t \in 1..NumYears
           /\ last.chart.x = [i \in 1..(NumYears + 1 - t) |-> t + i - 1]
           /\ Len(last.chart.ys) = 2
           /\ \A k \in 1..2 : Len(last.chart.ys[k]) = Len(last.chart.x)
           /\ last.chart.ys[1][1] = original_data.data.netWorth[t]
           /\ last.chart.ys[2][1] = transition_data.data.netWorth[t]
           /\ last.chart.vline = t

\* The comparison plotted with the slider at its last position: one point,
\* year 15, on each path.
C13_Witness ==
    /\ last.action = "Calculate Path Change Impact"
    /\ last.year = NumYears
    /\ last.chart.x = <<NumYears>>
    /\ Len(last.chart.ys) = 2
    /\ last.chart.vline = NumYears

\* C14: for an (area, occupation) with no matching row in the wage table the
\* salary lookup raises nothing and formatted_salary is exactly "N/A"; with
\* a matching row it is the dollar formatting of the first matching row's
\* mean wage, or "N/A" when float() does not accept that value.
C14_SalaryOrNA ==
    call.fn = "salary lookup"
    => LET matching == {i \in 1..Len(call.df_occ) :
                           /\ call.df_occ[i].AREA_TITLE = call.area
                           /\ call.df_occ[i].OCC_TITLE = call.occupation}
       IN  /\ call.exc = ""
           /\ IF matching = {} THEN call.formatted_salary = "N/A"
              ELSE LET first == CHOOSE i \in matching : \A j \in matching : i <= j
                   IN  <<call.df_occ[first].A_MEAN, call.formatted_salary>>
                          \in WageExamples

\* A lookup in a table of two rows, neither for the pair asked: "N/A".
C14_Witness ==
    /\ call.fn = "salary lookup"
    /\ Len(call.df_occ) = MaxRows
    /\ \A i \in 1..Len(call.df_occ) :
          \/ call.df_occ[i].AREA_TITLE # call.area
          \/ call.df_occ[i].OCC_TITLE # call.occupation
    /\ call.formatted_salary = "N/A"
    /\ call.exc = ""

\* C15: responses_history is a cumulative ordered log.  It starts empty; a
\* Revise Projection run appends exactly one (question, answer) entry, its
\* question the one of the current step, and puts every entry, in insertion
\* order, into the revision prompt context; no run removes or rewrites an
\* entry (the history before a run is a prefix of the history after it).
C15_HistoryCumulative ==
    /\ responses_history = <<>>
    /\ [][/\ Len(responses_history) <= Len(responses_history')
          /\ SubSeq(responses_history', 1, Len(responses_history))
                = responses_history
          /\ IF last'.action = "Revise Projection"
             THEN /\ Len(responses_history') = Len(responses_history) + 1
                  /\ responses_history'[Len(responses_history')].question
                        = additional_variables[additional_step][1]
                  /\ Len(last'.context) = Len(responses_history')
                  /\ \A i \in 1..Len(responses_history') :
                        last'.context[i] =
                            "- " \o responses_history'[i].question \o ": "
                                 \o responses_history'[i].response
             ELSE responses_history' = responses_history]_vars

\* A second revision: two entries, in the order given, the first one for an
\* earlier question, both in the prompt context.
C15_Witness ==
    /\ last.action = "Revise Projection"
    /\ Len(responses_history) = 2
    /\ responses_history[1].question # responses_history[2].question
    /\ Len(last.context) = 2

StepBlockActions ==
    {"Revise Projection", "Change Career/Education Path",
     "Calculate Path Change Impact"}

\* C16: additional_step starts at 0 and is changed by Next Step only, by
\* exactly +1 at every press, never reset.  The question, Revise Projection
\* and Change Career/Education Path are offered iff 1 <= additional_step <=
\* number of questions, the question being the additional_step-th; so once
\* Next Step has been pressed more often than there are questions, no
\* revision or path change runs again in the session.
C16_StepCounter ==
    /\ additional_step = 0
    /\ [](/\ (ENABLED NextStep) <=> additional_step < MaxStep
          /\ (ENABLED ChangePath)
                <=> additional_step \in 1..Len(additional_variables)
          /\ ReviseEnabled <=> additional_step \in 1..Len(additional_variables))
    /\ [][/\ additional_step' =
                IF last'.action = "Next Step" THEN additional_step + 1
                ELSE additional_step
          /\ last'.action \in StepBlockActions
                => additional_step \in 1..Len(additional_variables)
          /\ last'.action = "Revise Projection"
                => responses_history'[Len(responses_history')].question
                      = additional_variables[additional_step][1]
          /\ additional_step > Len(additional_variables)
                => /\ additional_step' > Len(additional_variables)
                   /\ last'.action \notin StepBlockActions]_vars

\* Next Step pressed once more than there are questions, after a revision
\* earlier in the session: no question, revision or path change is offered.
C16_Witness ==
    /\ additional_step > Len(additional_variables)
    /\ last.action = "Next Step"
    /\ responses_history # <<>>
    /\ ~ReviseEnabled
    /\ ~ENABLED ChangePath

\* C17: validate_projection_data(original, revised, t) returns True exactly
\* when the years lists are equally long and original and revised agree on
\* netWorth[i] and income[i] for every i with 0 <= i < t - 1; in every other
\* case, a netWorth or income list shorter than t - 1 included, it raises
\* ValueError and nothing else.
C17_ValidOrValueError ==
    call.fn = "validate_projection_data"
    => LET original == call.original_data.data
           revised == call.revised_data.data
           consistent ==
               /\ Len(original.years) = Len(revised.years)
               /\ \A i \in 1..(call.transition_year - 1) :
                     /\ i <= Len(original.netWorth) /\ i <= Len(revised.netWorth)
                     /\ i <= Len(original.income) /\ i <= Len(revised.income)
                     /\ original.netWorth[i] = revised.netWorth[i]
                     /\ original.income[i] = revised.income[i]
       IN  IF consistent THEN call.ret = "True" /\ call.exc = ""
           ELSE call.ret = None /\ call.exc = "ValueError"

\* C18: for a payload that validate_json_structure accepts and that has the
\* documented shape (the four section labels under "revisedExplanation",
\* and "comparison"), format_revised_projection raises nothing and returns
\* the years 1..15 with the series and summary of the payload's
\* "4. YEARLY BREAKDOWN" section.
C18_ValidatedPayloadFormats ==
    (/\ call.fn = "format_revised_projection"
     /\ validate_json_structure(call.revised_data)
     /\ SectionLabels \subseteq call.revised_data.revisedExplanation.keys)
    => LET section == call.revised_data.revisedExplanation.yearlyBreakdown
       IN  /\ call.exc = ""
           /\ call.ret.data.years = Years
           /\ call.ret.data.netWorth = section.netWorthProgression
           /\ call.ret.data.income = section.incomeProgression
           /\ call.ret.data.expenses = section.expenseProgression
           /\ call.ret.summary.totalNetWorth = section.totalNetWorth
           /\ call.ret.summary.peakNetWorth = section.peakNetWorth
           /\ call.ret.summary.averageGrowth = section.averageGrowth

=============================================================================
